---- MODULE Spec2Model ----
(***************************************************************************)
(* A model of elit's dependency-graph structure (structure.py), its TSV    *)
(* reader (reader.py) and the label / training framework of NLPModel       *)
(* (component/template/model.py).                                          *)
(*                                                                         *)
(* Values.  Python's None is the integer -1.  A node is identified by its  *)
(* position in the graph's node array, 0 .. MaxNode (0 is the root), and   *)
(* node_id gives the id it is ordered by.  A dependency label is an        *)
(* integer: None (-1) is an absent label, EMPTY (0) the empty string, and  *)
(* 1 .. MaxLabel are the non-empty label strings.                          *)
(***************************************************************************)
EXTENDS Integers, Sequences, FiniteSets, TLC

VARIABLES parent, children, secondary_parents, secondary_children, deprels,
          last, nodes, _iter, input, yielded, abandoned, callers,
          index_map, labels, first_seen,
          states, pc, num_threads, futures, consumed, result,
          active, stats, acc, trace,
          dev_states, ratio, bag_size, step, calls, mxmod,
          feats, head_id_index, feats_index, tsv, g, fin, pulls,
          query

(* NLPNode's relation fields, for every node *)
nodeVars == <<parent, children, secondary_parents, secondary_children,
              deprels>>

(* NLPGraph's fields, the list it was built from and what the traversal   *)
(* in progress has been handed so far; callers are the for loops that      *)
(* traverse the graph, each with the nodes it was handed                   *)
graphVars == <<nodes, _iter, input, yielded, abandoned, callers>>

(* NLPModel's label vocabulary, and the labels given to add_label in the  *)
(* order they were first given                                             *)
labelVars == <<index_map, labels, first_seen>>

(* A list of NLPState objects, and a call of train_instances on it: where *)
(* the call stands, its num_threads, the futures of its workers, how many *)
(* of them the driver has consumed, and the rows and labels gathered       *)
callVars == <<states, pc, num_threads, futures, consumed, result>>

(* A call of evaluate on the list of states: the positions in the list   *)
(* of the states still active, the shared accumulator and the score       *)
evalVars == <<active, stats, acc, trace>>

(* A call of train on the list of states: the development states, the    *)
(* bagging ratio, the bag size, the step under way, and how often process *)
(* was called on each training state since the step began; mxmod is the   *)
(* sequence of the calls made of the trainable module                      *)
trainVars == <<dev_states, ratio, bag_size, step, calls, mxmod>>

(* A sentence written out and read back: the features of the nodes of the *)
(* graph written, the reader's head-id column, the rows written and the   *)
(* outcome of reading them; the file a reader has open, and the outcomes  *)
(* of the pulls made from it so far                                        *)
readerVars == <<feats, head_id_index, feats_index, tsv, g, fin, pulls>>

(* The last positional query made of a node: the method, the receiver, the *)
(* order and the node returned                                              *)
queryVars == <<query>>

vars == <<nodeVars, last, graphVars, labelVars, callVars, evalVars,
          trainVars, readerVars, queryVars>>

None == -1

EMPTY == 0

MaxNode == 2

MaxLabel == 2

MaxSecondary == 1

Nodes == 0 .. MaxNode

(* The real tokens of the graph; node 0 is the root, which is never made  *)
(* a dependent.                                                            *)
Tokens == 1 .. MaxNode

NodesOrNone == Nodes \cup {None}

LabelStrings == 1 .. MaxLabel

AnyLabel == {None, EMPTY} \cup LabelStrings

(* NLPNode.node_id: the nodes of a graph carry their array position. *)
node_id(n) == n

(* NLPNode.__lt__ *)
__lt__(a, b) == node_id(a) < node_id(b)

(* Python truthiness of a label: None and '' are falsy. *)
Truthy(label) == label # None /\ label # EMPTY

(***************************************************************************)
(* elit.util.bisect: the sorted-sequence utilities.  Indices are 0-based   *)
(* as in Python; Sequences are 1-based, hence the +1 when indexing.        *)
(***************************************************************************)
RECURSIVE bisect_right_from(_, _, _, _)
bisect_right_from(a, x, lo, hi) ==
    IF lo < hi
    THEN LET mid == (lo + hi) \div 2
         IN  IF __lt__(x, a[mid + 1])
             THEN bisect_right_from(a, x, lo, mid)
             ELSE bisect_right_from(a, x, mid + 1, hi)
    ELSE lo

bisect_right(a, x) == bisect_right_from(a, x, 0, Len(a))

RECURSIVE bisect_left_from(_, _, _, _)
bisect_left_from(a, x, lo, hi) ==
    IF lo < hi
    THEN LET mid == (lo + hi) \div 2
         IN  IF __lt__(a[mid + 1], x)
             THEN bisect_left_from(a, x, mid + 1, hi)
             ELSE bisect_left_from(a, x, lo, mid)
    ELSE lo

bisect_left(a, x) == bisect_left_from(a, x, 0, Len(a))

InsertAt(a, idx, x) == SubSeq(a, 1, idx) \o <<x>> \o SubSeq(a, idx + 1, Len(a))

DeleteAt(a, idx) == SubSeq(a, 1, idx) \o SubSeq(a, idx + 2, Len(a))

insort_right(a, x) == InsertAt(a, bisect_right(a, x), x)

(* The index of x itself (identity) among the elements ordered equal to x, *)
(* -1 when x is not in the sequence.                                       *)
bisect_index(a, x) ==
    LET lo == bisect_left(a, x)
        hi == bisect_right(a, x)
        hits == {i \in lo .. hi - 1 : a[i + 1] = x}
    IN  IF hits = {} THEN -1 ELSE CHOOSE i \in hits : \A j \in hits : i <= j

bisect_remove(a, x) ==
    LET idx == bisect_index(a, x)
    IN  IF idx >= 0 THEN DeleteAt(a, idx) ELSE a

Contains(a, x) == \E i \in 1 .. Len(a) : a[i] = x

Elements(a) == {a[i] : i \in 1 .. Len(a)}

Count(a, x) == Cardinality({i \in 1 .. Len(a) : a[i] = x})

IsSorted(a) == \A i \in 1 .. Len(a) - 1 : node_id(a[i]) <= node_id(a[i + 1])

(***************************************************************************)
(* NLPNode                                                                 *)
(***************************************************************************)

(* NLPNode.get_dependency_label, on a given deprels map and parent link *)
get_dependency_label(dr, par, self, node) ==
    LET n == IF node = None THEN par[self] ELSE node
    IN  IF n # None THEN dr[self][n] ELSE None

(* NLPNode.set_dependency_label: the deprels map after the call *)
set_dependency_label(dr, self, node, label) ==
    IF Truthy(label) THEN [dr EXCEPT ![self][node] = label] ELSE dr

(* set_parent, line 134: self leaves the previous parent's children *)
set_parent_detach(ch, prev_parent, self) ==
    [ch EXCEPT ![prev_parent] = bisect_remove(@, self)]

(* set_parent, line 141 with a plain append in place of the sorted insert *)
set_parent_attach_append(ch, node, self) ==
    [ch EXCEPT ![node] = <<self>> \o @]

(* set_parent, line 141: self enters the new parent's children *)
set_parent_attach(ch, node, self) ==
    [ch EXCEPT ![node] = insort_right(@, self)]

(* set_parent, line 135, without dropping the old label *)
set_parent_keep_label(dr, self, prev_parent) == dr

(* set_parent, line 135: del self.deprels[prev_parent] (the key exists) *)
set_parent_del_label(dr, self, prev_parent) ==
    [dr EXCEPT ![self][prev_parent] = None]

(* The label a call hands to set_dependency_label: the non-empty label it  *)
(* was given for a node, None when it gives nothing to store.              *)
GivenLabel(node, label) ==
    IF node # None /\ Truthy(label) THEN label ELSE None

(* NLPNode.set_parent.  The del of line 135 raises KeyError when the       *)
(* previous parent has no entry in deprels; the removal of line 134 has    *)
(* then already happened and nothing after it runs.                        *)
set_parent(self, node, label) ==
    LET prev_parent == parent[self]
        had_label   == prev_parent # None /\ deprels[self][prev_parent] # None
        ch1 == IF prev_parent # None
               THEN set_parent_detach(children, prev_parent, self)
               ELSE children
        dr1 == IF prev_parent # None
               THEN set_parent_del_label(deprels, self, prev_parent)
               ELSE deprels
    IN  IF prev_parent # None /\ ~had_label
        THEN /\ children' = ch1
             /\ last' = [op |-> "set_parent", self |-> self, node |-> node,
                         label |-> GivenLabel(node, label),
                         raised |-> "KeyError", ret |-> None]
             /\ UNCHANGED <<parent, deprels, secondary_parents,
                            secondary_children>>
        ELSE /\ parent' = [parent EXCEPT ![self] = node]
             /\ children' = IF node # None
                            THEN set_parent_attach(ch1, node, self)
                            ELSE ch1
             /\ deprels' = IF node # None
                           THEN set_dependency_label(dr1, self, node, label)
                           ELSE dr1
             /\ last' = [op |-> "set_parent", self |-> self, node |-> node,
                         label |-> GivenLabel(node, label), raised |-> "",
                         ret |-> prev_parent]
             /\ UNCHANGED <<secondary_parents, secondary_children>>

(* NLPNode.add_secondary_parent *)
add_secondary_parent(self, node, label) ==
    /\ Len(secondary_parents[self]) < MaxSecondary
    /\ Len(secondary_children[node]) < MaxSecondary
    /\ secondary_parents' =
           [secondary_parents EXCEPT ![self] = insort_right(@, node)]
    /\ secondary_children' =
           [secondary_children EXCEPT ![node] = insort_right(@, self)]
    /\ deprels' = set_dependency_label(deprels, self, node, label)
    /\ last' = [op |-> "add_secondary_parent", self |-> self, node |-> node,
                label |-> GivenLabel(node, label), raised |-> "",
                ret |-> None]
    /\ UNCHANGED <<parent, children>>

(* NLPNode.remove_secondary_parent; ret is 1 for True and 0 for False *)
remove_secondary_parent(self, node) ==
    LET idx == bisect_index(secondary_parents[self], node)
    IN  /\ secondary_parents' =
               IF idx >= 0
               THEN [secondary_parents EXCEPT ![self] = DeleteAt(@, idx)]
               ELSE secondary_parents
        /\ deprels' = IF idx >= 0
                      THEN [deprels EXCEPT ![self][node] = None]
                      ELSE deprels
        /\ last' = [op |-> "remove_secondary_parent", self |-> self,
                    node |-> node, label |-> None, raised |-> "",
                    ret |-> IF idx >= 0 THEN 1 ELSE 0]
        /\ UNCHANGED <<parent, children, secondary_children>>

(* The last call made: its name, receiver, node argument and the label it *)
(* was given to store, the exception it raised ("" for none) and the       *)
(* value it returned.                                                      *)
NoCall == [op |-> "", self |-> None, node |-> None, label |-> None,
           raised |-> "", ret |-> None]

(* NLPNode.__init__ for every node of the graph *)
InitNodes ==
    /\ parent = [n \in Nodes |-> None]
    /\ children = [n \in Nodes |-> <<>>]
    /\ secondary_parents = [n \in Nodes |-> <<>>]
    /\ secondary_children = [n \in Nodes |-> <<>>]
    /\ deprels = [n \in Nodes |-> [m \in Nodes |-> None]]

(***************************************************************************)
(* The positional queries of NLPNode.  Each is the node the method         *)
(* returns, None included; a Python index idx reads element idx + 1.       *)
(***************************************************************************)

MaxOrder == 2

(* The default value of the order argument and the orders above it *)
Orders == 0 .. MaxOrder

(* list[idx] if 0 <= idx < len(list) else None *)
ItemOrNone(list, idx) ==
    IF 0 <= idx /\ idx < Len(list) THEN list[idx + 1] ELSE None

(* NLPNode.get_leftmost_child *)
get_leftmost_child(self, order) ==
    LET idx == order
        c   == ItemOrNone(children[self], idx)
    IN  IF c # None /\ __lt__(c, self) THEN c ELSE None

(* NLPNode.get_rightmost_child *)
get_rightmost_child(self, order) ==
    LET idx == Len(children[self]) - 1 - order
        c   == ItemOrNone(children[self], idx)
    IN  IF c # None /\ __lt__(self, c) THEN c ELSE None

(* get_left_nearest_child without the step to the left of self *)
get_left_nearest_child_at(self, order) ==
    ItemOrNone(children[self], bisect_left(children[self], self) - order)

(* NLPNode.get_left_nearest_child *)
get_left_nearest_child(self, order) ==
    ItemOrNone(children[self], bisect_left(children[self], self) - 1 - order)

(* NLPNode.get_right_nearest_child *)
get_right_nearest_child(self, order) ==
    ItemOrNone(children[self], bisect_right(children[self], self) + order)

(* NLPNode.get_leftmost_sibling *)
get_leftmost_sibling(self, order) ==
    LET idx == order
    IN  IF parent[self] # None
        THEN LET c == ItemOrNone(children[parent[self]], idx)
             IN  IF c # None /\ __lt__(c, self) THEN c ELSE None
        ELSE None

(* NLPNode.get_rightmost_sibling: idx is computed from self.children *)
get_rightmost_sibling(self, order) ==
    LET idx == Len(children[self]) - 1 - order
    IN  IF parent[self] # None
        THEN LET c == ItemOrNone(children[parent[self]], idx)
             IN  IF c # None /\ __lt__(self, c) THEN c ELSE None
        ELSE None

(* NLPNode.get_left_nearest_sibling *)
get_left_nearest_sibling(self, order) ==
    IF parent[self] # None
    THEN ItemOrNone(children[parent[self]],
                    bisect_left(children[parent[self]], self) - 1 - order)
    ELSE None

(* NLPNode.get_right_nearest_sibling *)
get_right_nearest_sibling(self, order) ==
    IF parent[self] # None
    THEN ItemOrNone(children[parent[self]],
                    bisect_right(children[parent[self]], self) + 1 + order)
    ELSE None

(* The names of the positional queries *)
Queries ==
    {"get_leftmost_child", "get_rightmost_child", "get_left_nearest_child",
     "get_right_nearest_child", "get_leftmost_sibling",
     "get_rightmost_sibling", "get_left_nearest_sibling",
     "get_right_nearest_sibling"}

(* The call self.op(order) *)
Call(op, self, order) ==
    CASE op = "get_leftmost_child" -> get_leftmost_child(self, order)
      [] op = "get_rightmost_child" -> get_rightmost_child(self, order)
      [] op = "get_left_nearest_child" -> get_left_nearest_child(self, order)
      [] op = "get_right_nearest_child" ->
             get_right_nearest_child(self, order)
      [] op = "get_leftmost_sibling" -> get_leftmost_sibling(self, order)
      [] op = "get_rightmost_sibling" -> get_rightmost_sibling(self, order)
      [] op = "get_left_nearest_sibling" ->
             get_left_nearest_sibling(self, order)
      [] op = "get_right_nearest_sibling" ->
             get_right_nearest_sibling(self, order)

(* No query was made yet *)
NoQuery == [op |-> "", self |-> None, order |-> 0, ret |-> None]

(* A positional query of the node self.  The graph is left as it is, so  *)
(* that a later query is answered as if it were the first: one query is   *)
(* followed from each graph.                                               *)
Query(op, self, order) ==
    /\ query = NoQuery
    /\ query' = [op |-> op, self |-> self, order |-> order,
                 ret |-> Call(op, self, order)]
    /\ UNCHANGED <<nodeVars, last>>

(***************************************************************************)
(* NLPGraph                                                                *)
(***************************************************************************)

(* NLPNode.root(): the artificial root is node 0, with node_id 0 *)
root == 0

MaxGraphLen == 3

RECURSIVE SeqsUpTo(_, _)
SeqsUpTo(S, n) ==
    IF n = 0 THEN {<<>>}
    ELSE LET shorter == SeqsUpTo(S, n - 1)
         IN  shorter \cup {Append(a, x) : a \in shorter, x \in S}

(* NLPGraph.__init__: the root, then the given nodes (None or an empty    *)
(* list adds nothing)                                                      *)
NLPGraph__init__(ns) == <<root>> \o ns

(* NLPGraph.__len__ *)
__len__(ns) == Len(ns) - 1

(* islice(self.nodes, 1, len(self.nodes)) started from the first element  *)
islice_from_root(ns) == [next |-> 0, stop |-> Len(ns)]

(* islice(self.nodes, 1, len(self.nodes)): the 0-based index of the next  *)
(* element to hand out and the index to stop before                       *)
islice(ns) == [next |-> 1, stop |-> Len(ns)]

(* The graph before its first __iter__: it has no _iter attribute *)
NoIter == [next |-> None, stop |-> None]

(* A __iter__ that keeps the cursor the graph already has *)
__iter__keeping_cursor ==
    /\ _iter' = IF _iter = NoIter THEN islice(nodes) ELSE _iter
    /\ yielded' = IF _iter = NoIter THEN <<>> ELSE yielded
    /\ abandoned' = abandoned
    /\ last' = [op |-> "__iter__", self |-> None, node |-> None,
                label |-> None, raised |-> "", ret |-> None]
    /\ UNCHANGED <<nodes, input>>

(* NLPGraph.__iter__ *)
__iter__ ==
    /\ _iter' = islice(nodes)
    /\ yielded' = <<>>
    /\ abandoned' = (abandoned \/ (_iter # NoIter /\ yielded # <<>>
                                     /\ _iter.next < _iter.stop))
    /\ last' = [op |-> "__iter__", self |-> None, node |-> None,
                label |-> None, raised |-> "", ret |-> None]
    /\ UNCHANGED <<nodes, input>>

(* NLPGraph.__next__: AttributeError before the first __iter__ *)
__next__ ==
    /\ IF _iter = NoIter
       THEN /\ last' = [op |-> "__next__", self |-> None, node |-> None,
                        label |-> None, raised |-> "AttributeError",
                        ret |-> None]
            /\ UNCHANGED <<_iter, yielded>>
       ELSE IF _iter.next < _iter.stop /\ _iter.next < Len(nodes)
       THEN /\ _iter' = [_iter EXCEPT !.next = @ + 1]
            /\ yielded' = Append(yielded, nodes[_iter.next + 1])
            /\ last' = [op |-> "__next__", self |-> None, node |-> None,
                        label |-> None, raised |-> "",
                        ret |-> nodes[_iter.next + 1]]
       ELSE /\ last' = [op |-> "__next__", self |-> None, node |-> None,
                        label |-> None, raised |-> "StopIteration",
                        ret |-> None]
            /\ UNCHANGED <<_iter, yielded>>
    /\ UNCHANGED <<nodes, input, abandoned>>

(* The two for loops over one graph: the one begun first and the one      *)
(* begun while the first is under way                                      *)
Callers == {"outer", "inner"}

(* No loop has begun: pc is where a loop stands, visited the nodes its    *)
(* body was given, seen the number of nodes the outer loop had been given  *)
(* when the loop began                                                     *)
NoCallers ==
    [c \in Callers |-> [pc |-> "idle", visited |-> <<>>, seen |-> 0]]

(* `for node in graph` begins: iter(graph) calls __iter__, which hands    *)
(* back the graph itself; the inner loop begins in the body of the outer   *)
for_iter(c) ==
    /\ callers[c].pc = "idle"
    /\ c = "inner" => callers["outer"].pc = "running"
    /\ __iter__
    /\ callers' = [callers EXCEPT ![c] =
           [pc |-> "running", visited |-> <<>>,
            seen |-> Len(callers["outer"].visited)]]

(* `for node in graph` goes on: next(graph) calls __next__; the loop runs *)
(* its body on the node handed out, or ends on StopIteration               *)
for_next(c) ==
    /\ callers[c].pc = "running"
    /\ __next__
    /\ callers' = [callers EXCEPT ![c] =
           IF last'.raised = ""
           THEN [@ EXCEPT !.visited = Append(@, last'.ret)]
           ELSE [@ EXCEPT !.pc = "ended"]]

(* The graph of all the tokens, not yet traversed *)
WholeGraph ==
    /\ input = [i \in 1 .. MaxNode |-> i]
    /\ nodes = NLPGraph__init__(input)
    /\ _iter = NoIter
    /\ yielded = <<>>
    /\ abandoned = FALSE
    /\ callers = NoCallers

(***************************************************************************)
(* NLPModel: the label vocabulary                                          *)
(***************************************************************************)

MaxGold == 3

(* The label strings that states carry as gold *)
GoldLabels == 1 .. MaxGold

(* NLPModel.get_label_index *)
get_label_index(im, label) == IF label \in DOMAIN im THEN im[label] ELSE -1

(* NLPModel.get_label: a list index, negative ones counted from the end;  *)
(* None stands for the IndexError of an index out of range                *)
get_label(ls, index) ==
    IF 0 <= index /\ index < Len(ls) THEN ls[index + 1]
    ELSE IF index < 0 /\ -index <= Len(ls) THEN ls[Len(ls) + index + 1]
    ELSE None

(* NLPModel.num_label *)
num_label(ls) == Len(ls)

(* add_label without the lookup: every call appends *)
add_label_always_appends(im, ls, label) ==
    [idx |-> Len(ls), index_map |-> (label :> Len(ls)) @@ im,
     labels |-> Append(ls, label)]

(* NLPModel.add_label: the index returned and the vocabulary afterwards *)
add_label_to(im, ls, label) ==
    LET idx == get_label_index(im, label)
    IN  IF idx < 0
        THEN [idx |-> Len(ls), index_map |-> (label :> Len(ls)) @@ im,
              labels |-> Append(ls, label)]
        ELSE [idx |-> idx, index_map |-> im, labels |-> ls]

(* A call of add_label *)
add_label(label) ==
    LET r == add_label_to(index_map, labels, label)
    IN  /\ Len(labels) <= MaxGold
        /\ index_map' = r.index_map
        /\ labels' = r.labels
        /\ first_seen' = IF Contains(first_seen, label) THEN first_seen
                         ELSE Append(first_seen, label)
        /\ last' = [op |-> "add_label", self |-> None, node |-> None,
                    label |-> label, raised |-> "", ret |-> r.idx]

(* A call of get_label_index *)
get_label_index_call(label) ==
    /\ last' = [op |-> "get_label_index", self |-> None, node |-> None,
                label |-> label, raised |-> "",
                ret |-> get_label_index(index_map, label)]
    /\ UNCHANGED labelVars

(* A call of get_label with a valid or an invalid index *)
get_label_call(index) ==
    LET l == get_label(labels, index)
    IN  /\ last' = [op |-> "get_label", self |-> None, node |-> None,
                    label |-> None,
                    raised |-> IF l = None THEN "IndexError" ELSE "",
                    ret |-> l]
        /\ UNCHANGED labelVars

(* NLPModel.__init__: an empty vocabulary *)
InitLabels ==
    /\ index_map = <<>>
    /\ labels = <<>>
    /\ first_seen = <<>>

(***************************************************************************)
(* NLPState (elit.component.template.state): the processing-state contract *)
(* A state is a record: id names the object, golds are the gold labels of  *)
(* its decisions, pos is the decision it stands at.                        *)
(***************************************************************************)

(* NLPState.gold: the gold label of the current decision *)
gold(state) == state.golds[state.pos + 1]

(* NLPState.terminate: no decision remains *)
terminate(state) == state.pos >= Len(state.golds)

(* NLPState.reset: back to the first decision, one more recycling *)
reset(state) == [state EXCEPT !.pos = 0, !.reset_count = @ + 1]

(* NLPState.process: on to the next decision; a terminated state stays *)
process(state) ==
    IF terminate(state) THEN state ELSE [state EXCEPT !.pos = @ + 1]

(***************************************************************************)
(* NLPModel: feature extraction                                            *)
(***************************************************************************)

MaxStates == 3

MaxThreads == 4

(* NLPModel.x: the feature vector of a state at its current decision, a   *)
(* deterministic function of the state                                     *)
x(state) == <<state.id, state.pos>>

Min(a, b) == IF a <= b THEN a ELSE b

(* np.math.ceil(a / b) for a >= 0, b >= 1 *)
ceil_div(a, b) == (a + b - 1) \div b

(* islice(seq, bidx, eidx): the elements at 0-based bidx .. eidx - 1 *)
islice_range(seq, bidx, eidx) == SubSeq(seq, bidx + 1, Min(eidx, Len(seq)))

(* train_instances.instances: the (x, gold) pairs of one chunk, as the    *)
(* two columns the transposing zip hands out; of no pair, it hands out    *)
(* nothing                                                                 *)
instances(sts, thread_id, batch_size) ==
    LET bidx  == thread_id * batch_size
        eidx  == Min((thread_id + 1) * batch_size, Len(sts))
        chunk == islice_range(sts, bidx, eidx)
    IN  IF chunk = <<>> THEN <<>>
        ELSE << [i \in 1 .. Len(chunk) |-> x(chunk[i])],
                [i \in 1 .. Len(chunk) |-> gold(chunk[i])] >>

(* [self.add_label(y) for y in ys]: the indices and the vocabulary after *)
RECURSIVE add_labels(_, _, _)
add_labels(im, ls, ys) ==
    IF ys = <<>> THEN [idxs |-> <<>>, index_map |-> im, labels |-> ls]
    ELSE LET r    == add_label_to(im, ls, Head(ys))
             rest == add_labels(r.index_map, r.labels, Tail(ys))
         IN  [idxs |-> <<r.idx>> \o rest.idxs, index_map |-> rest.index_map,
              labels |-> rest.labels]

RECURSIVE first_seen_after(_, _)
first_seen_after(seen, ys) ==
    IF ys = <<>> THEN seen
    ELSE first_seen_after(IF Contains(seen, Head(ys)) THEN seen
                          ELSE Append(seen, Head(ys)), Tail(ys))

NoResult == [xs |-> <<>>, ys |-> <<>>]

(* train_instances with num_threads = 1, lines 98-100: xs, ys =           *)
(* instances() raises ValueError when there is no state                    *)
train_instances_sequential(sts, im, ls) ==
    LET cols == instances(sts, 0, Len(sts))
    IN  IF cols = <<>>
        THEN [raised |-> "ValueError", xs |-> <<>>, ys |-> <<>>,
              index_map |-> im, labels |-> ls]
        ELSE LET r == add_labels(im, ls, cols[2])
             IN  [raised |-> "", xs |-> cols[1], ys |-> r.idxs,
                  index_map |-> r.index_map, labels |-> r.labels]

(* The call of train_instances: the sequential branch runs to its end,    *)
(* the other branch submits one worker per thread id (lines 102-104).     *)
train_instances(n) ==
    /\ pc = "idle"
    /\ num_threads' = n
    /\ consumed' = 0
    /\ IF n = 1
       THEN LET r == train_instances_sequential(states, index_map, labels)
            IN  /\ pc' = IF r.raised = "" THEN "returned" ELSE "raised"
                /\ result' = [xs |-> r.xs, ys |-> r.ys]
                /\ index_map' = r.index_map
                /\ labels' = r.labels
                /\ first_seen' =
                       IF r.raised = ""
                       THEN first_seen_after(first_seen,
                                instances(states, 0, Len(states))[2])
                       ELSE first_seen
                /\ futures' = <<>>
                /\ last' = [op |-> "train_instances", self |-> None,
                            node |-> None, label |-> None,
                            raised |-> r.raised, ret |-> None]
       ELSE /\ pc' = "waiting"
            /\ futures' = [i \in 1 .. n |-> [done |-> FALSE, cols |-> <<>>]]
            /\ result' = NoResult
            /\ last' = [op |-> "submit", self |-> None, node |-> None,
                        label |-> None, raised |-> "", ret |-> None]
            /\ UNCHANGED labelVars
    /\ UNCHANGED states

(* The size of a chunk, line 103 *)
chunk_size(sts, n) == ceil_div(Len(sts), n)

(* A worker of the pool runs instances(i, size) to its end, wherever the  *)
(* driver stands                                                          *)
worker(i) ==
    /\ pc \in {"waiting", "consuming"}
    /\ i \in 1 .. Len(futures)
    /\ ~futures[i].done
    /\ futures' = [futures EXCEPT ![i] =
           [done |-> TRUE,
            cols |-> instances(states, i - 1, chunk_size(states, num_threads))]]
    /\ last' = [op |-> "worker", self |-> None, node |-> None,
                label |-> None, raised |-> "", ret |-> None]
    /\ UNCHANGED <<labelVars, states, pc, num_threads, consumed, result>>

(* A driver that goes on as soon as one future is done *)
wait_first_completed ==
    /\ pc = "waiting"
    /\ \E i \in 1 .. Len(futures) : futures[i].done
    /\ pc' = "consuming"
    /\ last' = [op |-> "wait", self |-> None, node |-> None,
                label |-> None, raised |-> "", ret |-> None]
    /\ UNCHANGED <<labelVars, states, num_threads, futures, consumed, result>>

(* while wait(futures)[1]: pass -- the driver goes on when no future is   *)
(* left in the not-done set                                                *)
wait ==
    /\ pc = "waiting"
    /\ \A i \in 1 .. Len(futures) : futures[i].done
    /\ pc' = "consuming"
    /\ last' = [op |-> "wait", self |-> None, node |-> None,
                label |-> None, raised |-> "", ret |-> None]
    /\ UNCHANGED <<labelVars, states, num_threads, futures, consumed, result>>

(* xys(future) for the next future of the list, line 106: xs, ys =        *)
(* future.result() blocks until the future is done and raises ValueError   *)
(* when the worker's zip is empty; after the last future the rows and      *)
(* labels are stacked in list order, line 107                              *)
xys ==
    /\ pc = "consuming"
    /\ consumed < Len(futures) => futures[consumed + 1].done
    /\ IF consumed = Len(futures)
       THEN /\ pc' = "returned"
            /\ last' = [op |-> "train_instances", self |-> None,
                        node |-> None, label |-> None, raised |-> "",
                        ret |-> None]
            /\ UNCHANGED <<labelVars, consumed, result>>
       ELSE LET cols == futures[consumed + 1].cols
            IN  IF cols = <<>>
                THEN /\ pc' = "raised"
                     /\ last' = [op |-> "train_instances", self |-> None,
                                 node |-> None, label |-> None,
                                 raised |-> "ValueError", ret |-> None]
                     /\ UNCHANGED <<labelVars, consumed, result>>
                ELSE LET r == add_labels(index_map, labels, cols[2])
                     IN  /\ index_map' = r.index_map
                         /\ labels' = r.labels
                         /\ first_seen' = first_seen_after(first_seen, cols[2])
                         /\ result' = [xs |-> result.xs \o cols[1],
                                       ys |-> result.ys \o r.idxs]
                         /\ consumed' = consumed + 1
                         /\ last' = [op |-> "xys", self |-> None,
                                     node |-> None, label |-> None,
                                     raised |-> "", ret |-> None]
                         /\ pc' = pc
    /\ UNCHANGED <<states, num_threads, futures>>

(* No list of states, no call *)
NoCallOfModel ==
    /\ states = <<>>
    /\ pc = "idle"
    /\ num_threads = 0
    /\ futures = <<>>
    /\ consumed = 0
    /\ result = NoResult

(***************************************************************************)
(* NLPModel.evaluate                                                       *)
(***************************************************************************)

MaxDecisions == 2

(* NLPState.eval(stats): the state's decisions join the running total     *)
(* [correct, total]; the cumulative ratio is returned as that pair         *)
eval(state, st) == <<st[1] + state.pos, st[2] + Len(state.golds)>>

(* line 198 with the test dropped: every state stays active *)
still_active_all(sts, act) == act

(* line 198: the states that have not terminated stay active *)
still_active(sts, act) == SelectSeq(act, LAMBDA i : ~terminate(sts[i]))

(* What evaluate has done to its states so far: how often it reset each  *)
(* (by position in the list), which it found terminated at line 198,      *)
(* which of those it processed or reset afterwards, and its eval calls     *)
NoTrace == [resets |-> <<>>, reported |-> {}, late |-> {}, evals |-> <<>>]

(* line 186: every state is reset; the whole list is active *)
evaluate_reset ==
    /\ pc = "idle"
    /\ states' = [i \in 1 .. Len(states) |-> reset(states[i])]
    /\ active' = [i \in 1 .. Len(states) |-> i]
    /\ trace' = [trace EXCEPT
                    !.resets = [i \in 1 .. Len(states) |-> 1],
                    !.late = @ \cup ((1 .. Len(states)) \cap trace.reported)]
    /\ pc' = "loop"
    /\ last' = [op |-> "reset", self |-> None, node |-> None,
                label |-> None, raised |-> "", ret |-> None]
    /\ UNCHANGED <<stats, acc>>

(* lines 189-198, one round of the while loop: every active state is      *)
(* processed with its prediction, then the terminated ones are dropped     *)
evaluate_round ==
    /\ pc = "loop"
    /\ active # <<>>
    /\ LET processed == [i \in 1 .. Len(states) |->
                            IF Contains(active, i) THEN process(states[i])
                            ELSE states[i]]
       IN  /\ states' = processed
           /\ active' = still_active(processed, active)
           /\ trace' = [trace EXCEPT
                           !.late = @ \cup (Elements(active)
                                               \cap trace.reported),
                           !.reported = @ \cup
                               {i \in Elements(active) :
                                    terminate(processed[i])}]
    /\ last' = [op |-> "process", self |-> None, node |-> None,
                label |-> None, raised |-> "", ret |-> None]
    /\ UNCHANGED <<pc, stats, acc>>

(* lines 203-204 with a new accumulator for every state *)
eval_calls_unshared(sts, k, st) ==
    [i \in 1 .. Len(sts) |->
        [state |-> i, stats |-> <<0, 0>>, ret |-> eval(sts[i], <<0, 0>>)]]

(* lines 203-204: the eval calls made from the k-th state on, each with   *)
(* the accumulator as the calls before it left it, and what each returns   *)
RECURSIVE eval_calls(_, _, _)
eval_calls(sts, k, st) ==
    IF k > Len(sts) THEN <<>>
    ELSE <<[state |-> k, stats |-> st, ret |-> eval(sts[k], st)]>>
             \o eval_calls(sts, k + 1, eval(sts[k], st))

(* lines 203-204: the accumulator after the last eval call *)
eval_all(sts, k, st) ==
    LET evs == eval_calls(sts, k, st)
    IN  IF evs = <<>> THEN st ELSE evs[Len(evs)].ret

(* lines 200-206: no state is active; every state of the list is scored   *)
(* into the shared accumulator and the last score is returned              *)
evaluate_score ==
    /\ pc = "loop"
    /\ active = <<>>
    /\ stats' = eval_all(states, 1, <<0, 0>>)
    /\ acc' = IF states = <<>> THEN <<0, 0>> ELSE stats'
    /\ trace' = [trace EXCEPT !.evals = eval_calls(states, 1, <<0, 0>>)]
    /\ pc' = "returned"
    /\ last' = [op |-> "evaluate", self |-> None, node |-> None,
                label |-> None, raised |-> "", ret |-> None]
    /\ UNCHANGED <<states, active>>

NoEvaluation ==
    /\ active = <<>>
    /\ stats = <<0, 0>>
    /\ acc = <<0, 0>>
    /\ trace = NoTrace

(***************************************************************************)
(* NLPModel.train                                                          *)
(***************************************************************************)

MaxSteps == 2

(* The default bagging_ratio, 0.63, as a fraction *)
bagging_ratio == [num |-> 63, den |-> 100]

(* The bagging ratios a caller passes: the default and 1.0 *)
Ratios == {bagging_ratio, [num |-> 1, den |-> 1]}

(* line 149: int(len(trn_states) * bagging_ratio) *)
bag_size_of(n, r) == (n * r.num) \div r.den

(* The orders random.shuffle can leave a list in *)
Shuffles(sts) ==
    {[i \in 1 .. Len(sts) |-> sts[p[i]]] :
        p \in {q \in [1 .. Len(sts) -> 1 .. Len(sts)] :
                  \A i, j \in 1 .. Len(sts) : q[i] = q[j] => i = j}}

(* line 157 left out: the list stays as shuffled *)
unsorted(sts) == sts

(* list.sort(key=reset_count): a stable insertion of each element behind  *)
(* the elements whose key is not larger                                    *)
RECURSIVE sort_by_reset_count(_)
sort_by_reset_count(sts) ==
    IF sts = <<>> THEN <<>>
    ELSE LET init   == sort_by_reset_count(SubSeq(sts, 1, Len(sts) - 1))
             e      == sts[Len(sts)]
             before == SelectSeq(init,
                           LAMBDA t : t.reset_count <= e.reset_count)
             after  == SelectSeq(init,
                           LAMBDA t : t.reset_count > e.reset_count)
         IN  before \o <<e>> \o after

(* lines 155-157: the training states are shuffled, then sorted *)
train_shuffle_sort ==
    /\ pc = "step"
    /\ \E shuffled \in Shuffles(states) :
           states' = sort_by_reset_count(shuffled)
    /\ calls' = [i \in DOMAIN calls |-> 0]
    /\ pc' = "instances"
    /\ last' = [op |-> "sort", self |-> None, node |-> None,
                label |-> None, raised |-> "", ret |-> None]
    /\ UNCHANGED <<labelVars, dev_states, ratio, bag_size, step, mxmod>>

(* A call of a method of the module, made by train or by evaluate during *)
(* the given step                                                          *)
ModuleCall(call, by, stp) == [call |-> call, by |-> by, step |-> stp]

(* lines 161-166 on every step *)
init_on_every_step(stp) ==
    <<ModuleCall("init_params", "train", stp),
      ModuleCall("init_optimizer", "train", stp)>>

(* lines 161-166: the module is initialized on step 1 *)
init_on_step_1(stp) ==
    IF stp = 1
    THEN <<ModuleCall("init_params", "train", stp),
           ModuleCall("init_optimizer", "train", stp)>>
    ELSE <<>>

(* lines 159-168: the calls of the module from bind to fit; fit ends with *)
(* its call of predict                                                     *)
bind_init_fit(stp) ==
    <<ModuleCall("bind", "train", stp)>> \o init_on_step_1(stp)
        \o <<ModuleCall("fit", "train", stp),
             ModuleCall("predict", "train", stp)>>

(* lines 158-168: the instances of the bag are extracted (ValueError for  *)
(* an empty bag), bound and fitted; on step 1 the module is initialized   *)
train_fit ==
    /\ pc = "instances"
    /\ LET r == train_instances_sequential(SubSeq(states, 1, bag_size),
                                           index_map, labels)
       IN  /\ index_map' = r.index_map
           /\ labels' = r.labels
           /\ first_seen' =
                  IF r.raised = ""
                  THEN first_seen_after(first_seen,
                           [i \in 1 .. bag_size |-> gold(states[i])])
                  ELSE first_seen
           /\ pc' = IF r.raised = "" THEN "process" ELSE "raised"
           /\ mxmod' = IF r.raised = "" THEN mxmod \o bind_init_fit(step)
                       ELSE mxmod
           /\ last' = [op |-> "fit", self |-> None, node |-> None,
                       label |-> None, raised |-> r.raised, ret |-> None]
    /\ UNCHANGED <<states, dev_states, ratio, bag_size, step, calls>>

(* line 171 pairing the last bag_size states instead of the first *)
sampled_last(sts, n) == (Len(sts) - Min(n, Len(sts)) + 1) .. Len(sts)

(* lines 171-175 over every training state instead of the bag *)
sampled_all(sts, n) == 1 .. Len(sts)

(* line 171: zip(trn_states, ys, predictions) pairs the first bag_size    *)
(* states of the sorted list with their gold and prediction               *)
sampled(sts, n) == 1 .. Min(n, Len(sts))

(* line 175 without its condition *)
reset_always(state) == reset(state)

(* line 175: if state.terminate: state.reset() *)
reset_if_terminate(state) == IF terminate(state) THEN reset(state) ELSE state

(* lines 171-175: each sampled state is processed with its prediction and *)
(* reset when it has terminated                                            *)
train_process ==
    /\ pc = "process"
    /\ LET S == sampled(states, bag_size)
       IN  /\ states' = [i \in 1 .. Len(states) |->
                          IF i \in S
                          THEN reset_if_terminate(process(states[i]))
                          ELSE states[i]]
           /\ calls' = [id \in DOMAIN calls |->
                          IF \E i \in S : states[i].id = id
                          THEN calls[id] + 1 ELSE calls[id]]
    /\ pc' = "evaluate"
    /\ last' = [op |-> "process", self |-> None, node |-> None,
                label |-> None, raised |-> "", ret |-> None]
    /\ UNCHANGED <<labelVars, dev_states, ratio, bag_size, step, mxmod>>

RECURSIVE evaluate_rounds(_, _)
evaluate_rounds(sts, act) ==
    IF act = <<>> THEN sts
    ELSE LET processed == [i \in 1 .. Len(sts) |->
                              IF Contains(act, i) THEN process(sts[i])
                              ELSE sts[i]]
         IN  evaluate_rounds(processed, still_active(processed, act))

(* lines 189-192: the calls of the module evaluate makes, a bind and a    *)
(* predict in each round                                                   *)
RECURSIVE evaluate_calls(_, _, _)
evaluate_calls(sts, act, stp) ==
    IF act = <<>> THEN <<>>
    ELSE LET processed == [i \in 1 .. Len(sts) |->
                              IF Contains(act, i) THEN process(sts[i])
                              ELSE sts[i]]
         IN  <<ModuleCall("bind", "evaluate", stp),
               ModuleCall("predict", "evaluate", stp)>>
                 \o evaluate_calls(processed, still_active(processed, act),
                                   stp)

(* evaluate(states), lines 185-198, run to its end: the states afterwards *)
evaluate_run(sts) ==
    evaluate_rounds([i \in 1 .. Len(sts) |-> reset(sts[i])],
                    [i \in 1 .. Len(sts) |-> i])

(* lines 177-181: the development states are evaluated and the step is    *)
(* logged; after num_steps steps train returns                             *)
train_evaluate ==
    /\ pc = "evaluate"
    /\ dev_states' = evaluate_run(dev_states)
    /\ mxmod' = mxmod \o evaluate_calls(
                     [i \in 1 .. Len(dev_states) |-> reset(dev_states[i])],
                     [i \in 1 .. Len(dev_states) |-> i], step)
    /\ IF step < MaxSteps
       THEN step' = step + 1 /\ pc' = "step"
       ELSE step' = step /\ pc' = "returned"
    /\ last' = [op |-> "evaluate", self |-> None, node |-> None,
                label |-> None, raised |-> "", ret |-> None]
    /\ UNCHANGED <<labelVars, states, ratio, bag_size, calls>>

NoTraining ==
    /\ dev_states = <<>>
    /\ ratio = bagging_ratio
    /\ bag_size = 0
    /\ step = 0
    /\ calls = <<>>
    /\ mxmod = <<>>

(***************************************************************************)
(* NLPNode.__str__, NLPGraph.__str__ and TSVReader.tsv_to_graph.  A field  *)
(* of a row is a record: the blank marker, or the items the text spells.   *)
(* Of the surface fields the word stands for lemma, pos and nament, which  *)
(* are written and read by the same code.                                  *)
(***************************************************************************)

(* BLANK = '_' *)
BLANK == [blank |-> TRUE, items |-> <<>>]

Text(items) == [blank |-> FALSE, items |-> items]

(* A feats attribute: a dict as the sequence of its (key, value) items, or *)
(* None                                                                    *)
Dict(items) == [none |-> FALSE, items |-> items]

NoDict == [none |-> TRUE, items |-> <<>>]

(* The word of a node: the tokens carry distinct non-empty words *)
word(n) == n

(* The default of the reader's column indices *)
NoColumn == -1

(* The position of head_id in the tuple __str__ joins *)
HeadIdColumn == 5

(* The position of feats in the tuple __str__ joins *)
FeatsColumn == 4

(* NLPNode.__str__: the row of a node, or TypeError when a secondary      *)
(* parent has no label to join                                             *)
__str__(n) ==
    LET deprel == get_dependency_label(deprels, parent, n, parent[n])
        sps    == secondary_parents[n]
    IN  [raised  |-> IF \E i \in 1 .. Len(sps) :
                           get_dependency_label(deprels, parent, n, sps[i])
                               = None
                     THEN "TypeError" ELSE "",
         node_id |-> Text(<<node_id(n)>>),
         word    |-> Text(<<word(n)>>),
         feats   |-> IF feats[n].items # <<>>
                     THEN Text(feats[n].items) ELSE BLANK,
         head_id |-> IF parent[n] # None
                     THEN Text(<<node_id(parent[n])>>) ELSE BLANK,
         deprel  |-> IF Truthy(deprel) THEN Text(<<deprel>>) ELSE BLANK,
         sheads  |-> IF sps # <<>>
                     THEN Text([i \in 1 .. Len(sps) |->
                              <<node_id(sps[i]),
                                get_dependency_label(deprels, parent, n,
                                                     sps[i])>>])
                     ELSE BLANK]

NoRows == [raised |-> "", rows |-> <<>>]

(* NLPGraph.__str__: the rows of the tokens in order, the root excluded *)
NLPGraph__str__ ==
    /\ tsv = NoRows
    /\ g.raised = "unread"
    /\ LET rows == [i \in 1 .. Len(nodes) - 1 |-> __str__(nodes[i + 1])]
       IN  tsv' = IF \E i \in 1 .. Len(rows) : rows[i].raised # ""
                  THEN [raised |-> "TypeError", rows |-> <<>>]
                  ELSE [raised |-> "", rows |-> rows]
    /\ last' = [op |-> "__str__", self |-> None, node |-> None,
                label |-> None, raised |-> "", ret |-> None]
    /\ UNCHANGED <<feats, head_id_index, feats_index, g, fin, pulls>>

(* get_feats, lines 103-109: None for a blank column and for no column *)
get_feats(row) ==
    IF feats_index >= 0
    THEN IF row.feats = BLANK THEN NoDict ELSE Dict(row.feats.items)
    ELSE NoDict

(* Nothing read yet *)
NoGraph ==
    [raised |-> "unread", nodes |-> <<>>, word |-> <<>>, feats |-> <<>>,
     parent |-> <<>>, children |-> <<>>, deprels |-> <<>>,
     secondary_parents |-> <<>>]

(* lines 111-122: the graph of the rows, before any arc is attached; its  *)
(* sequences are indexed by node_id + 1                                    *)
init_nodes(rows) ==
    LET ns == NLPGraph__init__([i \in 1 .. Len(rows) |-> i])
    IN  [raised |-> "",
         nodes  |-> ns,
         word   |-> [k \in 1 .. Len(ns) |->
                       IF k = 1 THEN root ELSE rows[k - 1].word.items[1]],
         feats  |-> [k \in 1 .. Len(ns) |->
                       IF k = 1 THEN Dict(<<>>) ELSE get_feats(rows[k - 1])],
         parent |-> [k \in 1 .. Len(ns) |-> None],
         children |-> [k \in 1 .. Len(ns) |-> <<>>],
         deprels |-> [k \in 1 .. Len(ns) |-> [m \in 1 .. Len(ns) |-> None]],
         secondary_parents |-> [k \in 1 .. Len(ns) |-> <<>>]]

(* TSVReader.tsv_to_graph on the given rows: with a head-id column and a  *)
(* row to read, line 127 evaluates the name NLPArc, which no module        *)
(* defines                                                                 *)
tsv_to_graph_of(rows, hidx) ==
    IF hidx >= 0 /\ Len(rows) > 0
    THEN [NoGraph EXCEPT !.raised = "NameError"]
    ELSE init_nodes(rows)

(* TSVReader.tsv_to_graph on the rows written *)
tsv_to_graph ==
    /\ tsv # NoRows
    /\ tsv.raised = ""
    /\ g.raised = "unread"
    /\ g' = tsv_to_graph_of(tsv.rows, head_id_index)
    /\ last' = [op |-> "tsv_to_graph", self |-> None, node |-> None,
                label |-> None,
                raised |-> IF head_id_index >= 0 /\ Len(tsv.rows) > 0
                           THEN "NameError" ELSE "",
                ret |-> None]
    /\ UNCHANGED <<feats, head_id_index, feats_index, tsv, fin, pulls>>

(***************************************************************************)
(* TSVReader.next and the iteration protocol.  A line of the file is blank *)
(* (0) or holds a row; the row of line i is written with the word i, so    *)
(* that the rows of a file are all different.                              *)
(***************************************************************************)

MaxLines == 4

MaxPulls == 4

(* line.strip() is empty *)
BlankLine == 0

(* _TAB.split(line) of a line that holds the word w and no features *)
RowOf(w) ==
    [raised |-> "", node_id |-> Text(<<w>>), word |-> Text(<<w>>),
     feats |-> BLANK, head_id |-> Text(<<root>>), deprel |-> BLANK,
     sheads |-> BLANK]

(* lines 83-88 from line p on (0-based): the rows gathered and the file   *)
(* position when the loop ends                                             *)
RECURSIVE read_block(_, _, _)
read_block(lines, p, rows) ==
    IF p >= Len(lines) THEN [rows |-> rows, pos |-> p]
    ELSE IF lines[p + 1] # BlankLine
         THEN read_block(lines, p + 1, Append(rows, RowOf(lines[p + 1])))
         ELSE IF rows # <<>> THEN [rows |-> rows, pos |-> p + 1]
              ELSE read_block(lines, p + 1, rows)

(* The graph value None *)
NoneGraph == [NoGraph EXCEPT !.raised = "None"]

(* TSVReader.next: the value returned (or the exception) is recorded *)
next ==
    /\ Len(pulls) < MaxPulls
    /\ LET b == read_block(fin.lines, fin.pos, <<>>)
           r == IF b.rows # <<>> THEN tsv_to_graph_of(b.rows, head_id_index)
                ELSE NoneGraph
       IN  /\ fin' = [fin EXCEPT !.pos = b.pos]
           /\ pulls' = Append(pulls, [op |-> "next", graph |-> r])
           /\ last' = [op |-> "next", self |-> None, node |-> None,
                       label |-> None,
                       raised |-> IF r.raised = "None" THEN "" ELSE r.raised,
                       ret |-> None]
    /\ UNCHANGED <<feats, head_id_index, feats_index, tsv, g>>

(* TSVReader.__next__: a graph is returned when it is truthy, that is     *)
(* when NLPGraph.__len__ is not 0; otherwise StopIteration is raised      *)
TSVReader__next__ ==
    /\ Len(pulls) < MaxPulls
    /\ LET b == read_block(fin.lines, fin.pos, <<>>)
           r == IF b.rows # <<>> THEN tsv_to_graph_of(b.rows, head_id_index)
                ELSE NoneGraph
           v == IF r.raised = "" /\ __len__(r.nodes) = 0 THEN NoneGraph
                ELSE r
           e == IF v.raised = "None"
                THEN [NoGraph EXCEPT !.raised = "StopIteration"] ELSE v
       IN  /\ fin' = [fin EXCEPT !.pos = b.pos]
           /\ pulls' = Append(pulls, [op |-> "__next__", graph |-> e])
           /\ last' = [op |-> "__next__", self |-> None, node |-> None,
                       label |-> None, raised |-> e.raised, ret |-> None]
    /\ UNCHANGED <<feats, head_id_index, feats_index, tsv, g>>

(* No file is open *)
NoFile == [lines |-> <<>>, pos |-> 0]

NoReading ==
    /\ feats = [n \in Nodes |-> Dict(<<>>)]
    /\ head_id_index = NoColumn
    /\ feats_index = NoColumn
    /\ tsv = NoRows
    /\ g = NoGraph
    /\ fin = NoFile
    /\ pulls = <<>>

(***************************************************************************)
(* Specifications                                                          *)
(***************************************************************************)

Init ==
    /\ InitNodes
    /\ last = NoCall
    /\ WholeGraph
    /\ InitLabels
    /\ NoCallOfModel
    /\ NoEvaluation
    /\ query = NoQuery
    /\ NoReading
    /\ NoTraining

SetParent ==
    /\ \E self \in Tokens, node \in NodesOrNone, label \in AnyLabel :
           set_parent(self, node, label)
    /\ UNCHANGED <<graphVars, labelVars, callVars, evalVars, trainVars, readerVars, queryVars>>

AddSecondaryParent ==
    /\ \E self \in Tokens, node \in Nodes, label \in AnyLabel :
           add_secondary_parent(self, node, label)
    /\ UNCHANGED <<graphVars, labelVars, callVars, evalVars, trainVars, readerVars, queryVars>>

RemoveSecondaryParent ==
    /\ \E self \in Tokens, node \in Nodes :
           remove_secondary_parent(self, node)
    /\ UNCHANGED <<graphVars, labelVars, callVars, evalVars, trainVars, readerVars, queryVars>>

(* set_parent calls, with and without labels *)
Next ==
    \/ SetParent

Spec == Init /\ [][Next]_vars

(* add_secondary_parent and remove_secondary_parent calls only *)
NextSecondary ==
    \/ AddSecondaryParent
    \/ RemoveSecondaryParent

SpecSecondary == Init /\ [][NextSecondary]_vars

(* set_parent calls only, each attachment given a non-empty label *)
SetParentLabelled ==
    /\ \E self \in Tokens, node \in NodesOrNone, label \in LabelStrings :
           set_parent(self, node, label)
    /\ UNCHANGED <<graphVars, labelVars, callVars, evalVars, trainVars, readerVars, queryVars>>

NextParent == SetParentLabelled

SpecParent == Init /\ [][NextParent]_vars

(* set_parent calls that give each attachment a non-empty label, mixed    *)
(* with add_secondary_parent and remove_secondary_parent calls             *)
NextArcs ==
    \/ SetParentLabelled
    \/ AddSecondaryParent
    \/ RemoveSecondaryParent

SpecArcs == Init /\ [][NextArcs]_vars

(* A graph built from any list of tokens, then traversed *)
InitGraph ==
    /\ InitNodes
    /\ last = NoCall
    /\ input \in SeqsUpTo(Tokens, MaxGraphLen)
    /\ nodes = NLPGraph__init__(input)
    /\ _iter = NoIter
    /\ yielded = <<>>
    /\ abandoned = FALSE
    /\ callers = NoCallers
    /\ InitLabels
    /\ NoCallOfModel
    /\ NoEvaluation
    /\ query = NoQuery
    /\ NoReading
    /\ NoTraining

GraphIter == __iter__ /\ UNCHANGED <<callers, nodeVars, labelVars, callVars, evalVars, trainVars, readerVars, queryVars>>

GraphNext == __next__ /\ UNCHANGED <<callers, nodeVars, labelVars, callVars, evalVars, trainVars, readerVars, queryVars>>

NextGraph ==
    \/ GraphIter
    \/ GraphNext

SpecGraph == InitGraph /\ [][NextGraph]_vars

(* Two for loops over one graph, the second begun while the first is      *)
(* under way, their steps interleaved in every way                         *)
ForIter ==
    /\ \E c \in Callers : for_iter(c)
    /\ UNCHANGED <<nodeVars, labelVars, callVars, evalVars, trainVars, readerVars, queryVars>>

ForNext ==
    /\ \E c \in Callers : for_next(c)
    /\ UNCHANGED <<nodeVars, labelVars, callVars, evalVars, trainVars, readerVars, queryVars>>

NextLoops ==
    \/ ForIter
    \/ ForNext

SpecLoops == InitGraph /\ [][NextLoops]_vars

(* Calls of the vocabulary's methods on a fresh model *)
AddLabel ==
    /\ \E label \in GoldLabels : add_label(label)
    /\ UNCHANGED <<nodeVars, graphVars, callVars, evalVars, trainVars, readerVars, queryVars>>

GetLabelIndex ==
    /\ \E label \in GoldLabels : get_label_index_call(label)
    /\ UNCHANGED <<nodeVars, graphVars, callVars, evalVars, trainVars, readerVars, queryVars>>

GetLabel ==
    /\ \E index \in -1 .. MaxGold : get_label_call(index)
    /\ UNCHANGED <<nodeVars, graphVars, callVars, evalVars, trainVars, readerVars, queryVars>>

NextLabel ==
    \/ AddLabel
    \/ GetLabelIndex
    \/ GetLabel

SpecLabel == Init /\ [][NextLabel]_vars

(* A fresh state with one decision, whose gold label is y *)
FreshState(i, y) == [id |-> i, golds |-> <<y>>, pos |-> 0, reset_count |-> 0]

(* One call of train_instances on a non-empty list of states, each at a  *)
(* decision with a gold label, by a model with an empty vocabulary        *)
InitInstances ==
    /\ InitNodes
    /\ last = NoCall
    /\ WholeGraph
    /\ InitLabels
    /\ \E gs \in SeqsUpTo(GoldLabels, MaxStates) \ {<<>>} :
           states = [i \in 1 .. Len(gs) |-> FreshState(i, gs[i])]
    /\ pc = "idle"
    /\ num_threads = 0
    /\ futures = <<>>
    /\ consumed = 0
    /\ result = NoResult
    /\ NoEvaluation
    /\ query = NoQuery
    /\ NoReading
    /\ NoTraining

TrainInstances ==
    /\ \E n \in 1 .. MaxThreads : train_instances(n)
    /\ UNCHANGED <<nodeVars, graphVars, evalVars, trainVars, readerVars, queryVars>>

Worker ==
    /\ \E i \in 1 .. MaxThreads : worker(i)
    /\ UNCHANGED <<nodeVars, graphVars, evalVars, trainVars, readerVars, queryVars>>

Wait == wait /\ UNCHANGED <<nodeVars, graphVars, evalVars, trainVars, readerVars, queryVars>>

Xys == xys /\ UNCHANGED <<nodeVars, graphVars, evalVars, trainVars, readerVars, queryVars>>

NextInstances ==
    \/ TrainInstances
    \/ Worker
    \/ Wait
    \/ Xys

SpecInstances == InitInstances /\ [][NextInstances]_vars

(* A state with the given number of decisions, fresh or run to its end *)
StateOf(i, len, p) ==
    [id |-> i, golds |-> [k \in 1 .. len |-> 1], pos |-> p,
     reset_count |-> 0]

StateShapes == {<<len, p>> : len \in 0 .. MaxDecisions, p \in {0}} \cup
               {<<len, len>> : len \in 0 .. MaxDecisions}

(* One call of evaluate on any list of states, each with a bounded number *)
(* of decisions                                                            *)
InitEvaluate ==
    /\ InitNodes
    /\ last = NoCall
    /\ WholeGraph
    /\ InitLabels
    /\ \E shapes \in SeqsUpTo(StateShapes, MaxStates) :
           states = [i \in 1 .. Len(shapes) |->
                        StateOf(i, shapes[i][1], shapes[i][2])]
    /\ pc = "idle"
    /\ num_threads = 0
    /\ futures = <<>>
    /\ consumed = 0
    /\ result = NoResult
    /\ NoEvaluation
    /\ query = NoQuery
    /\ NoReading
    /\ NoTraining

EvaluateReset ==
    /\ evaluate_reset
    /\ UNCHANGED <<nodeVars, graphVars, labelVars, num_threads, futures,
                   consumed, result, trainVars, readerVars, queryVars>>

EvaluateRound ==
    /\ evaluate_round
    /\ UNCHANGED <<nodeVars, graphVars, labelVars, num_threads, futures,
                   consumed, result, trainVars, readerVars, queryVars>>

EvaluateScore ==
    /\ evaluate_score
    /\ UNCHANGED <<nodeVars, graphVars, labelVars, num_threads, futures,
                   consumed, result, trainVars, readerVars, queryVars>>

NextEvaluate ==
    \/ EvaluateReset
    \/ EvaluateRound
    \/ EvaluateScore

(* evaluate is straight-line code run by one thread: it keeps running *)
SpecEvaluate ==
    InitEvaluate /\ [][NextEvaluate]_vars /\ WF_vars(NextEvaluate)

(* A training state: its decisions have gold labels that vary with the   *)
(* state and the decision                                                  *)
TrainingState(i, len) ==
    [id |-> i, golds |-> [k \in 1 .. len |-> ((i + k) % MaxGold) + 1],
     pos |-> 0, reset_count |-> 0]

(* lines 147-152: train on any non-empty list of training states and one  *)
(* development state, with one of the bagging ratios                       *)
InitTrain ==
    /\ InitNodes
    /\ last = NoCall
    /\ WholeGraph
    /\ InitLabels
    /\ \E lens \in SeqsUpTo(1 .. MaxDecisions, MaxStates) \ {<<>>} :
           /\ states = [i \in 1 .. Len(lens) |-> TrainingState(i, lens[i])]
           /\ calls = [i \in 1 .. Len(lens) |-> 0]
    /\ dev_states = <<TrainingState(0, MaxDecisions)>>
    /\ ratio \in Ratios
    /\ bag_size = bag_size_of(Len(states), ratio)
    /\ step = 1
    /\ mxmod = <<>>
    /\ pc = "step"
    /\ num_threads = 0
    /\ futures = <<>>
    /\ consumed = 0
    /\ result = NoResult
    /\ NoEvaluation
    /\ query = NoQuery
    /\ NoReading

TrainShuffleSort ==
    /\ train_shuffle_sort
    /\ UNCHANGED <<nodeVars, graphVars, evalVars, num_threads, futures,
                   consumed, result, readerVars, queryVars>>

TrainFit ==
    /\ train_fit
    /\ UNCHANGED <<nodeVars, graphVars, evalVars, num_threads, futures,
                   consumed, result, readerVars, queryVars>>

TrainProcess ==
    /\ train_process
    /\ UNCHANGED <<nodeVars, graphVars, evalVars, num_threads, futures,
                   consumed, result, readerVars, queryVars>>

TrainEvaluate ==
    /\ train_evaluate
    /\ UNCHANGED <<nodeVars, graphVars, evalVars, num_threads, futures,
                   consumed, result, readerVars, queryVars>>

NextTrain ==
    \/ TrainShuffleSort
    \/ TrainFit
    \/ TrainProcess
    \/ TrainEvaluate

SpecTrain == InitTrain /\ [][NextTrain]_vars

(* The children of node n when the tokens have the given heads *)
ChildrenOf(head, n) ==
    LET Add(a, t) == IF head[t] = n THEN Append(a, t) ELSE a
        F[t \in 0 .. MaxNode] == IF t = 0 THEN <<>> ELSE Add(F[t - 1], t)
    IN  F[MaxNode]

(* The graphs written: every token was given a head and a label with      *)
(* set_parent, and possibly one secondary head, labelled or not, with     *)
(* add_secondary_parent; a token has features or none.  The reader reads  *)
(* the head ids from the column they are written to, or not at all.       *)
InitTSV ==
    /\ last = NoCall
    /\ WholeGraph
    /\ InitLabels
    /\ NoCallOfModel
    /\ NoEvaluation
    /\ query = NoQuery
    /\ NoTraining
    /\ \E head \in [Tokens -> Nodes], lab \in [Tokens -> LabelStrings],
          sec \in [Tokens -> NodesOrNone],
          seclab \in [Tokens -> LabelStrings \cup {None}] :
           /\ \A t \in Tokens :
                  /\ head[t] # t
                  /\ sec[t] \notin {t, head[t]}
                  /\ sec[t] = None => seclab[t] = None
           /\ \A t, u \in Tokens : t # u /\ sec[t] # None => sec[t] # sec[u]
           /\ parent = [n \in Nodes |-> IF n \in Tokens THEN head[n] ELSE None]
           /\ children = [n \in Nodes |-> ChildrenOf(head, n)]
           /\ secondary_parents =
                  [n \in Nodes |-> IF n \in Tokens /\ sec[n] # None
                                   THEN <<sec[n]>> ELSE <<>>]
           /\ secondary_children =
                  [n \in Nodes |->
                      IF \E t \in Tokens : sec[t] = n
                      THEN <<CHOOSE t \in Tokens : sec[t] = n>> ELSE <<>>]
           /\ deprels =
                  [n \in Nodes |-> [m \in Nodes |->
                      IF n \notin Tokens THEN None
                      ELSE IF m = head[n] THEN lab[n]
                      ELSE IF m = sec[n] THEN seclab[n]
                      ELSE None]]
    /\ feats \in [Nodes -> {Dict(<<>>), Dict(<< <<1, 1>> >>)}]
    /\ feats[root] = Dict(<<>>)
    /\ head_id_index \in {NoColumn, HeadIdColumn}
    /\ feats_index \in {NoColumn, FeatsColumn}
    /\ tsv = NoRows
    /\ g = NoGraph
    /\ fin = NoFile
    /\ pulls = <<>>

GraphStr ==
    /\ NLPGraph__str__
    /\ UNCHANGED <<nodeVars, graphVars, labelVars, callVars, evalVars,
                   trainVars, queryVars>>

TsvToGraph ==
    /\ tsv_to_graph
    /\ UNCHANGED <<nodeVars, graphVars, labelVars, callVars, evalVars,
                   trainVars, queryVars>>

NextTSV ==
    \/ GraphStr
    \/ TsvToGraph

SpecTSV == InitTSV /\ [][NextTSV]_vars

(* The files read: any arrangement of blank lines and rows, by a reader   *)
(* that takes the head ids from their column or has no such column         *)
InitReader ==
    /\ InitNodes
    /\ last = NoCall
    /\ WholeGraph
    /\ InitLabels
    /\ NoCallOfModel
    /\ NoEvaluation
    /\ query = NoQuery
    /\ NoTraining
    /\ feats = [n \in Nodes |-> Dict(<<>>)]
    /\ head_id_index \in {NoColumn, HeadIdColumn}
    /\ feats_index \in {NoColumn, FeatsColumn}
    /\ tsv = NoRows
    /\ g = NoGraph
    /\ \E blank \in SeqsUpTo(BOOLEAN, MaxLines) :
           fin = [lines |-> [i \in 1 .. Len(blank) |->
                               IF blank[i] THEN BlankLine ELSE i],
                  pos |-> 0]
    /\ pulls = <<>>

ReaderNext ==
    /\ next
    /\ UNCHANGED <<nodeVars, graphVars, labelVars, callVars, evalVars,
                   trainVars, queryVars>>

ReaderIterNext ==
    /\ TSVReader__next__
    /\ UNCHANGED <<nodeVars, graphVars, labelVars, callVars, evalVars,
                   trainVars, queryVars>>

NextReader ==
    \/ ReaderNext
    \/ ReaderIterNext

SpecReader == InitReader /\ [][NextReader]_vars

MaxQueryNode == 4

(* The nodes of the graphs queried: the root and MaxQueryNode tokens *)
QueryNodes == 0 .. MaxQueryNode

(* The children of node n when the tokens t of ts have the heads head[t]  *)
RECURSIVE SortedChildren(_, _, _)
SortedChildren(head, n, t) ==
    IF t = 0 THEN <<>>
    ELSE IF head[t] = n THEN Append(SortedChildren(head, n, t - 1), t)
         ELSE SortedChildren(head, n, t - 1)

(* The graphs queried: every token was attached with set_parent to one of *)
(* at most two nodes, or was left unattached                               *)
InitQuery ==
    /\ \E a, b \in QueryNodes :
       \E head \in [1 .. MaxQueryNode -> {None, a, b}] :
           /\ parent = [n \in QueryNodes |-> IF n = root THEN None
                                             ELSE head[n]]
           /\ children = [n \in QueryNodes |->
                             SortedChildren(head, n, MaxQueryNode)]
           /\ deprels = [n \in QueryNodes |-> [m \in QueryNodes |->
                            IF n # root /\ head[n] = m THEN 1 ELSE None]]
    /\ secondary_parents = [n \in QueryNodes |-> <<>>]
    /\ secondary_children = [n \in QueryNodes |-> <<>>]
    /\ last = NoCall
    /\ WholeGraph
    /\ InitLabels
    /\ NoCallOfModel
    /\ NoEvaluation
    /\ query = NoQuery
    /\ NoTraining
    /\ NoReading

GetLeftmostChild ==
    /\ \E self \in QueryNodes, order \in Orders :
           Query("get_leftmost_child", self, order)
    /\ UNCHANGED <<graphVars, labelVars, callVars, evalVars, trainVars,
                   readerVars>>

GetRightmostChild ==
    /\ \E self \in QueryNodes, order \in Orders :
           Query("get_rightmost_child", self, order)
    /\ UNCHANGED <<graphVars, labelVars, callVars, evalVars, trainVars,
                   readerVars>>

GetLeftNearestChild ==
    /\ \E self \in QueryNodes, order \in Orders :
           Query("get_left_nearest_child", self, order)
    /\ UNCHANGED <<graphVars, labelVars, callVars, evalVars, trainVars,
                   readerVars>>

GetRightNearestChild ==
    /\ \E self \in QueryNodes, order \in Orders :
           Query("get_right_nearest_child", self, order)
    /\ UNCHANGED <<graphVars, labelVars, callVars, evalVars, trainVars,
                   readerVars>>

GetLeftmostSibling ==
    /\ \E self \in QueryNodes, order \in Orders :
           Query("get_leftmost_sibling", self, order)
    /\ UNCHANGED <<graphVars, labelVars, callVars, evalVars, trainVars,
                   readerVars>>

GetRightmostSibling ==
    /\ \E self \in QueryNodes, order \in Orders :
           Query("get_rightmost_sibling", self, order)
    /\ UNCHANGED <<graphVars, labelVars, callVars, evalVars, trainVars,
                   readerVars>>

GetLeftNearestSibling ==
    /\ \E self \in QueryNodes, order \in Orders :
           Query("get_left_nearest_sibling", self, order)
    /\ UNCHANGED <<graphVars, labelVars, callVars, evalVars, trainVars,
                   readerVars>>

GetRightNearestSibling ==
    /\ \E self \in QueryNodes, order \in Orders :
           Query("get_right_nearest_sibling", self, order)
    /\ UNCHANGED <<graphVars, labelVars, callVars, evalVars, trainVars,
                   readerVars>>

NextQuery ==
    \/ GetLeftmostChild
    \/ GetRightmostChild
    \/ GetLeftNearestChild
    \/ GetRightNearestChild
    \/ GetLeftmostSibling
    \/ GetRightmostSibling
    \/ GetLeftNearestSibling
    \/ GetRightNearestSibling

SpecQuery == InitQuery /\ [][NextQuery]_vars

(***************************************************************************)
(* Properties of the parent / child relation                               *)
(***************************************************************************)

IsStrictlySorted(a) ==
    \A i \in 1 .. Len(a) - 1 : node_id(a[i]) < node_id(a[i + 1])

(* C1: after any sequence of set_parent calls with non-empty labels, every *)
(* node's children are exactly the nodes whose parent it is, each once, in *)
(* ascending node_id order.                                                *)
ChildrenAreTheDependents ==
    \A P \in Nodes :
        /\ IsStrictlySorted(children[P])
        /\ Elements(children[P]) = {n \in Nodes : parent[n] = P}

(* A parent holds every token at once, and a token has been detached. *)
ChildrenWitness ==
    /\ last.op = "set_parent"
    /\ \E P \in Nodes : Len(children[P]) = MaxNode
    /\ last.ret # None

(* C2: B is in A.secondary_children iff A is in B.secondary_parents, after *)
(* any sequence of add_secondary_parent and remove_secondary_parent calls. *)
SecondaryArcsAreDual ==
    \A A \in Nodes, B \in Nodes :
        Contains(secondary_children[A], B) <=> Contains(secondary_parents[B], A)

(* C3: set_parent on a node whose current parent was attached without a    *)
(* label completes without error, detaches the node from the old parent,   *)
(* attaches it to the new node (if any) and returns the old parent.        *)
SetParentWithoutLabelCompletes ==
    [][LET self == last'.self
           node == last'.node
       IN  (/\ last'.op = "set_parent"
            /\ parent[self] # None
            /\ deprels[self][parent[self]] = None)
           => /\ last'.raised = ""
              /\ last'.ret = parent[self]
              /\ parent'[self] = node
              /\ node # parent[self] => ~Contains(children'[parent[self]], self)
              /\ node # None => Contains(children'[node], self)]_vars

(* What set_parent(node, label) does for a node with no parent, and for a  *)
(* node attached to A with a label when the new parent is absent.          *)
SetParentOtherCases(self, node) ==
    LET A == parent[self]
    IN  /\ A = None => last'.ret = None
        /\ (A # None /\ Truthy(deprels[self][A]) /\ node = None)
           => /\ last'.ret = A
              /\ parent'[self] = None
              /\ deprels'[self][A] = None

(* C4 as stated: for B attached to A with a label, B.set_parent(C, l2)     *)
(* returns A, leaves no label keyed by A, makes C the parent and l2 the    *)
(* label; set_parent(absent) returns the previous parent, clears the       *)
(* parent and drops its label; with no parent, set_parent returns absent.  *)
SetParentReplacesAsStated ==
    [][LET self  == last'.self
           node  == last'.node
           label == last'.label
           A     == parent[self]
       IN  last'.op = "set_parent"
           => /\ (A # None /\ Truthy(deprels[self][A]) /\ node # None
                    /\ Truthy(label))
                 => /\ last'.ret = A
                    /\ deprels'[self][A] = None
                    /\ parent'[self] = node
                    /\ get_dependency_label(deprels', parent', self, None)
                           = label
              /\ SetParentOtherCases(self, node)]_vars

(* C4 amended: the label keyed by A is gone when C is another node than A; *)
(* when C is A itself, the label keyed by A is l2.                         *)
SetParentReplaces ==
    [][LET self  == last'.self
           node  == last'.node
           label == last'.label
           A     == parent[self]
       IN  last'.op = "set_parent"
           => /\ (A # None /\ Truthy(deprels[self][A]) /\ node # None
                    /\ Truthy(label))
                 => /\ last'.ret = A
                    /\ deprels'[self][A] = IF node = A THEN label ELSE None
                    /\ parent'[self] = node
                    /\ get_dependency_label(deprels', parent', self, None)
                           = label
              /\ SetParentOtherCases(self, node)]_vars

(* A labelled node has just been moved from one parent to another. *)
SetParentReplacesWitness ==
    /\ last.op = "set_parent"
    /\ last.raised = ""
    /\ last.ret # None
    /\ \E self \in Tokens :
           /\ parent[self] # None
           /\ parent[self] # last.ret
           /\ Truthy(deprels[self][parent[self]])
           /\ deprels[self][last.ret] = None
           /\ ~Contains(children[last.ret], self)

(***************************************************************************)
(* Properties of NLPGraph                                                  *)
(***************************************************************************)

IsPrefix(a, b) == Len(a) <= Len(b) /\ a = SubSeq(b, 1, Len(a))

(* C5: nodes[0] is the root with node_id 0, len(graph) is the number of    *)
(* input nodes, and every traversal, also one begun after another was      *)
(* abandoned midway, hands out exactly the input nodes in input order.     *)
GraphYieldsItsInput ==
    /\ nodes[1] = root
    /\ node_id(nodes[1]) = 0
    /\ __len__(nodes) = Len(input)
    /\ IsPrefix(yielded, input)
    /\ (last.op = "__next__" /\ last.raised = "StopIteration")
           => yielded = input

(* A traversal of a full-length graph has run to exhaustion after an      *)
(* earlier one was abandoned midway.                                       *)
GraphYieldsItsInputWitness ==
    /\ last.op = "__next__"
    /\ last.raised = "StopIteration"
    /\ abandoned
    /\ Len(input) = MaxGraphLen
    /\ yielded = input

(***************************************************************************)
(* Properties of the label vocabulary                                      *)
(***************************************************************************)

(* The labels are distinct, get_label inverts get_label_index, the        *)
(* indices are 0 .. num_label - 1 and follow the first-seen order.         *)
VocabularyIsABijection ==
    /\ \A i \in 1 .. Len(labels), j \in 1 .. Len(labels) :
           labels[i] = labels[j] => i = j
    /\ DOMAIN index_map = Elements(first_seen)
    /\ \A l \in Elements(first_seen) :
           get_label(labels, get_label_index(index_map, l)) = l
    /\ {get_label_index(index_map, l) : l \in Elements(first_seen)}
           = 0 .. num_label(labels) - 1
    /\ labels = first_seen

(* What one call does: no index changes, add_label of a known label       *)
(* returns its index and adds nothing, add_label of a new label adds one   *)
(* label, get_label_index changes nothing and answers -1 for an unseen     *)
(* label.                                                                  *)
VocabularyStep ==
    LET known == Contains(first_seen, last'.label)
    IN  /\ \A l \in Elements(first_seen) :
               get_label_index(index_map', l) = get_label_index(index_map, l)
        /\ (last'.op = "add_label" /\ known)
               => /\ last'.ret = get_label_index(index_map, last'.label)
                  /\ num_label(labels') = num_label(labels)
        /\ (last'.op = "add_label" /\ ~known)
               => /\ last'.ret = num_label(labels)
                  /\ num_label(labels') = num_label(labels) + 1
        /\ last'.op = "get_label_index"
               => /\ index_map' = index_map
                  /\ labels' = labels
                  /\ ~known => last'.ret = -1
                  /\ known => get_label(labels, last'.ret) = last'.label

(* C6: the vocabulary is a bijection between the labels and 0 ..           *)
(* num_label - 1 in first-seen order, an index once assigned never         *)
(* changes, add_label of a known label returns its index and leaves        *)
(* num_label alone, and get_label_index of an unseen label returns -1 and  *)
(* changes nothing.                                                        *)
VocabularyIsStable == [](VocabularyIsABijection) /\ [][VocabularyStep]_vars

(* A known label has been added again after every label was added. *)
VocabularyWitness ==
    /\ last.op = "add_label"
    /\ Len(labels) = MaxGold
    /\ last.ret < Len(labels) - 1

(***************************************************************************)
(* Properties of train_instances                                           *)
(***************************************************************************)

(* C7: for a non-empty list of states and any num_threads >= 1, also one   *)
(* that leaves trailing chunks short or empty, train_instances returns     *)
(* the rows and labels, and leaves the vocabulary, that num_threads = 1    *)
(* gives.                                                                  *)
ParallelEqualsSequential ==
    LET seq == train_instances_sequential(states, <<>>, <<>>)
    IN  /\ pc # "raised"
        /\ pc = "returned"
               => /\ result.xs = seq.xs
                  /\ result.ys = seq.ys
                  /\ index_map = seq.index_map
                  /\ labels = seq.labels

(***************************************************************************)
(* Properties of evaluate                                                  *)
(***************************************************************************)

(* C8: on states that each terminate within a bounded number of process    *)
(* calls after reset, evaluate returns, and when it returns every input    *)
(* state is in a terminated configuration.                                 *)
EvaluateTerminates ==
    /\ <>(pc = "returned")
    /\ [](pc = "returned"
            => \A i \in 1 .. Len(states) : terminate(states[i]))

(* evaluate has returned on a full list of states that needed several     *)
(* rounds, some of them more rounds than others.                           *)
EvaluateTerminatesWitness ==
    /\ pc = "returned"
    /\ Len(states) = MaxStates
    /\ \E i \in 1 .. Len(states) : Len(states[i].golds) = MaxDecisions
    /\ \E i \in 1 .. Len(states) : Len(states[i].golds) < MaxDecisions

(***************************************************************************)
(* Properties of train                                                     *)
(***************************************************************************)

(* b is floor(n * r) *)
IsFloorOf(b, n, r) == b * r.den <= n * r.num /\ n * r.num < (b + 1) * r.den

(* C9: every training step samples exactly bag_size = floor(len * ratio)   *)
(* states (63 of 100 at 0.63): process is called once on each of the first *)
(* bag_size states of the step's sorted order and on no other training     *)
(* state during the step.                                                  *)
BagIsSampledOnce ==
    /\ IsFloorOf(bag_size, Len(states), ratio)
    /\ bag_size_of(100, bagging_ratio) = 63
    /\ pc \in {"instances", "process", "raised"}
           => \A i \in 1 .. Len(states) : calls[states[i].id] = 0
    /\ pc \in {"evaluate", "returned"} \/ (pc = "step" /\ step > 1)
           => \A i \in 1 .. Len(states) :
                  calls[states[i].id] = IF i <= bag_size THEN 1 ELSE 0

(* A later step has processed its bag, which is neither empty nor all of  *)
(* the training states.                                                    *)
BagIsSampledOnceWitness ==
    /\ pc = "evaluate"
    /\ step > 1
    /\ 0 < bag_size
    /\ bag_size < Len(states)
    /\ Len(states) = MaxStates

(***************************************************************************)
(* Properties of the reader                                                *)
(***************************************************************************)

(* C10: a graph with primary heads, dependency labels and a secondary head *)
(* that was written as rows and read back with the head ids taken from the *)
(* column they were written to is read without an exception, and the graph *)
(* read has the same node ids, words and features, the same parents with   *)
(* each node among its parent's children, the same labels and the same     *)
(* secondary parents.                                                      *)
RoundTripReproducesGraph ==
    (/\ g.raised # "unread"
     /\ head_id_index = HeadIdColumn
     /\ \E t \in Tokens : secondary_parents[t] # <<>>)
    => /\ g.raised = ""
       /\ g.nodes = nodes
       /\ \A n \in Nodes :
              /\ g.word[n + 1] = word(n)
              /\ g.feats[n + 1] = feats[n]
              /\ g.parent[n + 1] = parent[n]
              /\ parent[n] # None
                     => Contains(g.children[parent[n] + 1], n)
              /\ \A m \in Nodes : g.deprels[n + 1][m + 1] = deprels[n][m]
              /\ g.secondary_parents[n + 1] = secondary_parents[n]

(* The maximal runs of rows of the lines, in file order, as their words *)
RECURSIVE Blocks(_)
Blocks(lines) ==
    IF lines = <<>> THEN <<>>
    ELSE LET init == Blocks(SubSeq(lines, 1, Len(lines) - 1))
             l    == lines[Len(lines)]
         IN  IF l = BlankLine THEN init
             ELSE IF Len(lines) > 1 /\ lines[Len(lines) - 1] # BlankLine
                  THEN [init EXCEPT ![Len(init)] = Append(@, l)]
                  ELSE Append(init, <<l>>)

(* C11: whatever the arrangement of blank lines, the k-th pull returns the *)
(* graph of the k-th maximal run of rows, whose j-th row is the node with  *)
(* node_id j, while there is one; every later pull signals the end of the  *)
(* stream: next() returns None and iteration raises StopIteration.         *)
NextReturnsEachBlock ==
    \A k \in 1 .. Len(pulls) :
        LET bs == Blocks(fin.lines)
            p  == pulls[k]
        IN  IF k <= Len(bs)
            THEN /\ p.graph.raised = ""
                 /\ p.graph.nodes = [j \in 1 .. Len(bs[k]) + 1 |-> j - 1]
                 /\ \A j \in 1 .. Len(bs[k]) :
                        p.graph.word[j + 1] = bs[k][j]
            ELSE p.graph.raised =
                     IF p.op = "next" THEN "None" ELSE "StopIteration"

(* C12: a node read from a row whose features column is blank, or read    *)
(* with no features column configured, has the empty feature mapping.     *)
BlankFeatsAreEmpty ==
    g.raised = ""
    => \A n \in Tokens :
           tsv.rows[n].feats = BLANK \/ feats_index = NoColumn
               => g.feats[n + 1] = Dict(<<>>)

(***************************************************************************)
(* Properties of the positional queries                                    *)
(***************************************************************************)

(* The member c of S with exactly k members of S nearer to the node than  *)
(* c on the same side, or None: S is a set of node ids on one side of it   *)
NthNearest(S, self, k) ==
    LET Nearer(c) == {d \in S : IF c < self THEN d > c ELSE d < c}
        T == {c \in S : Cardinality(Nearer(c)) = k}
    IN  IF T = {} THEN None ELSE CHOOSE c \in T : TRUE

LeftOf(list, self) == {c \in Elements(list) : node_id(c) < node_id(self)}

RightOf(list, self) == {c \in Elements(list) : node_id(c) > node_id(self)}

(* C13: get_left_nearest_child(order) is the child with the (order+1)-th   *)
(* largest node_id among the children to the left of the node, and         *)
(* get_right_nearest_child(order) the child with the (order+1)-th smallest *)
(* node_id among the children to its right; None when there is none.       *)
NearestChildIsByPosition ==
    /\ query.op # "" => IsSorted(children[query.self])
    /\ query.op = "get_left_nearest_child"
           => query.ret = NthNearest(LeftOf(children[query.self], query.self),
                                     query.self, query.order)
    /\ query.op = "get_right_nearest_child"
           => query.ret = NthNearest(RightOf(children[query.self],
                                             query.self),
                                     query.self, query.order)

(* A node with children on both sides was asked for its second nearest    *)
(* child on the left and got one.                                          *)
NearestChildWitness ==
    /\ query.op = "get_left_nearest_child"
    /\ query.order = 1
    /\ query.ret # None
    /\ RightOf(children[query.self], query.self) # {}

(* The k-th element of the list counted from the left (k = 0 is the first) *)
(* or None                                                                 *)
FromLeft(list, k) == IF k < Len(list) THEN list[k + 1] ELSE None

(* The k-th element of the list counted from the right, or None *)
FromRight(list, k) == IF k < Len(list) THEN list[Len(list) - k] ELSE None

(* C14: for a node with a parent P, get_leftmost_sibling(order) is the     *)
(* order-th element from the left of P.children if its node_id is smaller  *)
(* than the node's and None otherwise, and get_rightmost_sibling(order) is *)
(* the order-th element from the right of P.children if its node_id is     *)
(* larger and None otherwise, whatever the node's own children are; both   *)
(* are None for a node without a parent.                                   *)
OutermostSiblingIsOfParent ==
    query.op \in {"get_leftmost_sibling", "get_rightmost_sibling"}
    => LET P == parent[query.self]
           c == IF P = None THEN None
                ELSE IF query.op = "get_leftmost_sibling"
                     THEN FromLeft(children[P], query.order)
                     ELSE FromRight(children[P], query.order)
       IN  query.ret =
               IF c = None THEN None
               ELSE IF query.op = "get_leftmost_sibling"
                    THEN IF node_id(c) < node_id(query.self) THEN c ELSE None
                    ELSE IF node_id(c) > node_id(query.self) THEN c ELSE None

(* C15: for a node with a parent P, get_left_nearest_sibling(order) is the *)
(* child of P with the (order+1)-th largest node_id among those to the     *)
(* left of the node, and get_right_nearest_sibling(order) the child of P   *)
(* with the (order+1)-th smallest node_id among those to its right; None   *)
(* when the node has no parent or P has no such child.                     *)
NearestSiblingIsByPosition ==
    query.op \in {"get_left_nearest_sibling", "get_right_nearest_sibling"}
    => LET P == parent[query.self]
       IN  query.ret =
               IF P = None THEN None
               ELSE IF query.op = "get_left_nearest_sibling"
                    THEN NthNearest(LeftOf(children[P], query.self),
                                    query.self, query.order)
                    ELSE NthNearest(RightOf(children[P], query.self),
                                    query.self, query.order)

(* The positions in the log of the module at which train made the call *)
CallsOf(call) ==
    {i \in 1 .. Len(mxmod) : mxmod[i].call = call /\ mxmod[i].by = "train"}

(* C16: in a run of train the parameters and the optimizer of the module   *)
(* are each initialized exactly once, during step 1, after step 1's bind   *)
(* and before the first fit; no later step initializes them again.  A run  *)
(* that has made its first fit, or has returned, has initialized each once *)
(* and no run initializes either twice.                                    *)
InitializedOnceInStepOne ==
    /\ \A c \in {"init_params", "init_optimizer"} :
           /\ Cardinality(CallsOf(c)) <= 1
           /\ \A i \in CallsOf(c) :
                  /\ mxmod[i].step = 1
                  /\ \E b \in CallsOf("bind") : b < i /\ mxmod[b].step = 1
                  /\ \A f \in CallsOf("fit") : i < f
           /\ CallsOf("fit") # {} \/ pc = "returned"
                  => Cardinality(CallsOf(c)) = 1
    /\ \A i \in CallsOf("init_params") :
           \A j \in CallsOf("init_optimizer") : i < j

(* train has returned after several steps, each with its fit, and the     *)
(* module was initialized during the first.                                *)
InitializedOnceWitness ==
    /\ pc = "returned"
    /\ step > 1
    /\ Cardinality(CallsOf("fit")) = step
    /\ Cardinality(CallsOf("init_params")) = 1
    /\ Cardinality(CallsOf("init_optimizer")) = 1

(* C18: in every training step, every sampled state has a reset_count less *)
(* than or equal to that of every training state not sampled in the step.  *)
(* The sample is the first bag_size states of the list from the sort until *)
(* the states are processed.                                               *)
SampledAreLeastReset ==
    pc \in {"instances", "process"}
    => \A i \in sampled(states, bag_size) :
           \A j \in (1 .. Len(states)) \ sampled(states, bag_size) :
               states[i].reset_count <= states[j].reset_count

(* A step samples some of the states, and one of the states left out has  *)
(* been reset more often than one of the sampled.                          *)
SampledAreLeastResetWitness ==
    /\ pc = "process"
    /\ \E i \in sampled(states, bag_size) :
           \E j \in (1 .. Len(states)) \ sampled(states, bag_size) :
               states[i].reset_count < states[j].reset_count

(* The training state with the given id *)
StateOfId(sts, id) == sts[CHOOSE i \in 1 .. Len(sts) : sts[i].id = id]

TerminatedStates(sts) == {i \in 1 .. Len(sts) : terminate(sts[i])}

(* C19: during training a sampled state is reset exactly when it reports   *)
(* terminate after its process call of the step; the reset_count of a      *)
(* training state changes only through these resets; and no training state *)
(* is terminated at the end of a step.                                     *)
ResetExactlyWhenTerminated ==
    /\ [][\A id \in DOMAIN calls :
              LET old == StateOfId(states, id)
                  new == StateOfId(states', id)
                  was_sampled == calls'[id] = calls[id] + 1
              IN  /\ new.reset_count \in
                         {old.reset_count, old.reset_count + 1}
                  /\ new.reset_count = old.reset_count + 1
                         <=> /\ pc = "process"
                             /\ was_sampled
                             /\ terminate(process(old))
                  /\ new.reset_count = old.reset_count + 1 => new.pos = 0
                  /\ pc = "process" /\ was_sampled
                     /\ ~terminate(process(old)) => new = process(old)]_vars
    /\ [](pc \in {"step", "evaluate", "returned"}
              => TerminatedStates(states) = {})

(* A step has processed a state that terminated and was reset, and a      *)
(* state that did not terminate and was left where it is.                  *)
ResetExactlyWhenTerminatedWitness ==
    /\ pc = "evaluate"
    /\ \E i, j \in sampled(states, bag_size) :
           /\ states[i].pos = 0
           /\ states[i].reset_count > 0
           /\ states[j].pos > 0

(* The process calls the state t can still receive before its reset_count *)
(* exceeds r                                                               *)
CallsUntilAbove(t, r) ==
    IF t.reset_count > r THEN 0
    ELSE (r - t.reset_count) * Len(t.golds) + Len(t.golds) - t.pos

RECURSIVE SumOver(_, _)
SumOver(sts, r) ==
    IF sts = <<>> THEN 0
    ELSE CallsUntilAbove(sts[1], r) + SumOver(Tail(sts), r)

(* The process calls the other states can receive while none of them has  *)
(* been reset more often than the state with the given id                  *)
Ahead(sts, id) ==
    LET s == StateOfId(sts, id)
    IN  SumOver(SelectSeq(sts, LAMBDA t : t.id # id), s.reset_count)

(* C17: with bag_size >= 1 and states that terminate after a bounded       *)
(* number of process calls, a training state that is not sampled in a step *)
(* is sampled after finitely many further steps, whatever the shuffles:    *)
(* each step that leaves the state out uses up at least one of the         *)
(* finitely many process calls that can be made ahead of it.               *)
NeverStarved ==
    /\ [][pc = "process" /\ bag_size >= 1
              => \A id \in DOMAIN calls :
                     calls'[id] = 0
                         => /\ Ahead(states', id) < Ahead(states, id)
                            /\ Ahead(states', id) >= 0]_vars
    /\ [](\A id \in DOMAIN calls : Ahead(states, id) >= 0)

(* A step samples a state that the step before left out: the state has   *)
(* had one process call in all, in a step after the first.                 *)
NeverStarvedWitness ==
    /\ pc = "evaluate"
    /\ step > 1
    /\ bag_size < Len(states)
    /\ \E i \in sampled(states, bag_size) :
           /\ states[i].reset_count = 0
           /\ states[i].pos = 1
           /\ Len(states[i].golds) > 1
           /\ calls[states[i].id] = 1

AllWorkersDone == \A i \in 1 .. Len(futures) : futures[i].done

DriverJoinsBeforeLabels ==
    /\ [](num_threads > 1 /\ pc \in {"consuming", "returned", "raised"}
              => AllWorkersDone)
    /\ [][num_threads' > 1 /\
              (labelVars' # labelVars \/ consumed' # consumed \/
               result' # result)
              => AllWorkersDone]_vars
    /\ [][futures' # futures => labelVars' = labelVars]_vars

(* Two workers have completed and the driver has consumed the first       *)
(* result, which added a label to the vocabulary                          *)
DriverJoinsBeforeLabelsWitness ==
    /\ num_threads > 1
    /\ pc = "consuming"
    /\ consumed = 1
    /\ Len(futures) > 1
    /\ labels # <<>>

(***************************************************************************)
(* C22: the graph has one cursor, shared by all its traversals. Beginning  *)
(* a second traversal while the first is under way resets the cursor to    *)
(* the first token; from then on the two traversals share what the cursor  *)
(* hands out, so they do not both visit all N tokens when the first still  *)
(* had tokens to visit; and once the inner traversal has run to completion *)
(* the outer one ends at its next step without visiting another token.     *)
(***************************************************************************)
(* C22 as stated: whenever a second traversal has begun while the first   *)
(* was under way, the two do not both visit all the tokens of a graph     *)
(* that has tokens                                                        *)
InterleavedTraversalsBothFallShort ==
    (callers["inner"].pc # "idle" /\ Len(input) > 0)
        => ~(/\ callers["outer"].visited = input
             /\ callers["inner"].visited = input)

(* C22, made precise: the second traversal resets the shared cursor; the  *)
(* two traversals do not both visit all the tokens when the first still   *)
(* had a token to visit as the second began; an outer traversal ends      *)
(* without another token once the inner one has run to completion.        *)
TraversalsShareOneCursor ==
    /\ [][callers["inner"].pc = "idle" /\ callers'["inner"].pc = "running"
              => /\ _iter' = islice(nodes)
                 /\ yielded' = <<>>]_vars
    /\ [](callers["inner"].pc # "idle"
              => /\ Len(callers["outer"].visited) - callers["inner"].seen
                        + Len(callers["inner"].visited) = Len(yielded)
                 /\ Len(yielded) <= Len(input)
                 /\ callers["inner"].seen < Len(input)
                        => ~(/\ callers["outer"].visited = input
                             /\ callers["inner"].visited = input))
    /\ [][callers["inner"].pc = "ended" /\ callers["outer"].pc = "running"
              => /\ callers'["outer"].pc = "ended"
                 /\ callers'["outer"].visited = callers["outer"].visited]_vars

(* Nested loops over a graph of full length: the inner loop began in the  *)
(* outer loop's first body and visited every token, and the outer loop    *)
(* ended having visited the first token only                              *)
TraversalsShareOneCursorWitness ==
    /\ Len(input) = MaxGraphLen
    /\ callers["outer"].pc = "ended"
    /\ callers["inner"].pc = "ended"
    /\ callers["inner"].seen = 1
    /\ callers["inner"].visited = input
    /\ callers["outer"].visited = <<input[1]>>

(***************************************************************************)
(* C23: no add_secondary_parent or remove_secondary_parent call changes    *)
(* the label a node holds for its primary parent, the calls naming that    *)
(* parent included; so that no set_parent, each given a label, fails to    *)
(* detach a node from its parent.                                          *)
(***************************************************************************)
PrimaryLabelOutlivesSecondaryCalls ==
    /\ [][last'.op \in {"add_secondary_parent", "remove_secondary_parent"}
              => \A n \in Tokens :
                     parent[n] # None
                         => deprels'[n][parent[n]] = deprels[n][parent[n]]]_vars
    /\ [](last.op = "set_parent" => last.raised = "")

(***************************************************************************)
(* C24: every state on which process is called has not terminated: the     *)
(* states a round of evaluate processes (lines 194-196) and the sampled    *)
(* states a step of train processes (lines 171-173) are not terminated as  *)
(* the round or the step begins, a state without decisions included.       *)
(***************************************************************************)
ProcessOnlyBeforeTerminate ==
    /\ [][(pc = "loop" /\ active # <<>>)
              => \A i \in Elements(active) : ~terminate(states[i])]_vars
    /\ [][pc = "process"
              => \A i \in sampled(states, bag_size) :
                     ~terminate(states[i])]_vars

====
